---- MODULE Spec2Model ----
(***************************************************************************)
(* MedicalNet (single- and dual-modality): the volume pipeline of          *)
(* datasets/custom_dataset.py (Range Clipper, Resampler, Intensity         *)
(* Normalizer, Tensor Packer), the Example Enumerator                       *)
(* (CustomTumorDataset) and the training loop of dualseq_resnet18_train.py. *)
(*                                                                         *)
(* A volume is a record [shape, data]: shape is <<n0, n1, n2>> and data     *)
(* maps every 0-based index triple of that shape to an intensity.           *)
(***************************************************************************)
EXTENDS Integers, Sequences, FiniteSets, TLC

VARIABLES pc, volume, sets, rng, out, root, obj, ret, calls, loop

vars == <<pc, volume, sets, rng, out, root, obj, ret, calls, loop>>

(***************************************************************************)
(* Bounds of the model.                                                     *)
(***************************************************************************)
MaxDim == 2
MaxVoxels == 8
MaxDenseVoxels == 4
MaxVal == 2
MaxTarget == 2
NumSeeds == 2
NumChars == 2
MaxEntries == 3
MaxKids == 1
MaxLines == 1
MaxLineLen == 3
MaxIdx == 1
MaxCalls == 1
MaxEpochs == 2
MaxBatches == 2

\* intensities: one negative value, zero, and the positive values up to MaxVal
Vals == {-1} \cup (0..MaxVal)

None == [kind |-> "none"]

(***************************************************************************)
(* Small helpers over integers and finite sets.                             *)
(***************************************************************************)
SetMax(S) == CHOOSE x \in S : \A y \in S : y <= x

SetMin(S) == CHOOSE x \in S : \A y \in S : x <= y

Min2(a, b) == IF a <= b THEN a ELSE b

Max2(a, b) == IF a >= b THEN a ELSE b

RECURSIVE SumOver(_, _)
SumOver(S, f) ==
    IF S = {} THEN 0
    ELSE LET x == CHOOSE y \in S : TRUE
         IN  f[x] + SumOver(S \ {x}, f)

(***************************************************************************)
(* Volumes (numpy 3-d arrays).                                              *)
(***************************************************************************)
Idx(shape) == (0..(shape[1] - 1)) \X (0..(shape[2] - 1)) \X (0..(shape[3] - 1))

Size(shape) == shape[1] * shape[2] * shape[3]

Shapes ==
    {s \in (1..MaxDim) \X (1..MaxDim) \X (1..MaxDim) : Size(s) <= MaxVoxels}

\* a volume that is bg everywhere but at p (value a) and at q (value b)
MkVolume(shape, bg, p, a, q, b) ==
    [shape |-> shape,
     data  |-> [x \in Idx(shape) |-> IF x = q THEN b ELSE IF x = p THEN a ELSE bg]]

SpotVolumes ==
    UNION {{MkVolume(s, bg, p, a, p, a) : p \in Idx(s), bg \in Vals, a \in Vals}
           : s \in Shapes}

TwoSpotVolumes ==
    UNION {{MkVolume(s, bg, p, a, q, b) : p \in Idx(s), q \in Idx(s),
                                          bg \in Vals, a \in Vals, b \in Vals}
           : s \in Shapes}

\* every volume of at most MaxDenseVoxels voxels
DenseVolumes ==
    UNION {[shape : {s}, data : [Idx(s) -> Vals]]
           : s \in {u \in Shapes : Size(u) <= MaxDenseVoxels}}

(***************************************************************************)
(* __drop_invalid_range__: the Range Clipper.                               *)
(***************************************************************************)
\* numpy basic slicing a[lo:hi] on an axis of length n, 0 <= lo, 0 <= hi
SliceLen(lo, hi, n) == Max2(0, Min2(hi, n) - Min2(lo, n))

Slice(v, lo, hi) ==
    LET shp == <<SliceLen(lo[1], hi[1], v.shape[1]),
                 SliceLen(lo[2], hi[2], v.shape[2]),
                 SliceLen(lo[3], hi[3], v.shape[3])>>
    IN  [shape |-> shp,
         data  |-> [x \in Idx(shp) |->
                      v.data[<<x[1] + lo[1], x[2] + lo[2], x[3] + lo[3]>>]]]

\* np.where(volume != zero_value)
NonZerosIdx(v) == {x \in Idx(v.shape) : v.data[x] # v.data[<<0, 0, 0>>]}

AxisMaxInclusive(S, k) == SetMax({x[k] : x \in S}) + 1

AxisMax(S, k) == SetMax({x[k] : x \in S})

AxisMin(S, k) == SetMin({x[k] : x \in S})

DropInvalidRangeUnchecked(v) ==
    LET nz == NonZerosIdx(v)
    IN  IF nz = {}
        THEN [err |-> "ok", data |-> v]
        ELSE [err  |-> "ok",
              data |-> Slice(v, <<AxisMin(nz, 1), AxisMin(nz, 2), AxisMin(nz, 3)>>,
                                <<AxisMax(nz, 1), AxisMax(nz, 2), AxisMax(nz, 3)>>)]

DropInvalidRange(v) ==
    LET nz == NonZerosIdx(v)
    IN  IF nz = {}
        THEN [err |-> "ValueError", data |-> None]
        ELSE [err  |-> "ok",
              data |-> Slice(v, <<AxisMin(nz, 1), AxisMin(nz, 2), AxisMin(nz, 3)>>,
                                <<AxisMax(nz, 1), AxisMax(nz, 2), AxisMax(nz, 3)>>)]

(***************************************************************************)
(* __resize_data__: the Resampler (scipy.ndimage zoom, order 0).            *)
(***************************************************************************)
\* Python round() of the rational n/d (d > 0): to nearest, ties to even
RoundDiv(n, d) ==
    LET q == n \div d
        r == n % d
    IN  IF 2 * r < d THEN q
        ELSE IF 2 * r > d THEN q + 1
        ELSE IF q % 2 = 0 THEN q ELSE q + 1

\* zoom's output shape: int(round(ii * jj)) per axis, jj the rational num/den
ZoomOutputShape(shape, scale) ==
    <<RoundDiv(shape[1] * scale[1].num, scale[1].den),
      RoundDiv(shape[2] * scale[2].num, scale[2].den),
      RoundDiv(shape[3] * scale[3].num, scale[3].den)>>

\* order 0: output index o reads input index floor(o * (n - 1)/(m - 1) + 0.5)
ZoomIndex(o, n, m) ==
    IF m = 1 THEN 0 ELSE (2 * o * (n - 1) + (m - 1)) \div (2 * (m - 1))

Zoom(v, scale) ==
    LET shp == ZoomOutputShape(v.shape, scale)
    IN  [shape |-> shp,
         data  |-> [x \in Idx(shp) |->
                      v.data[<<ZoomIndex(x[1], v.shape[1], shp[1]),
                               ZoomIndex(x[2], v.shape[2], shp[2]),
                               ZoomIndex(x[3], v.shape[3], shp[3])>>]]]

\* [width, depth, height] = data.shape; scale = [W/width, D/depth, H/height]
ResizeScale(shape, s) ==
    <<[num |-> s.input_W, den |-> shape[1]],
      [num |-> s.input_D, den |-> shape[2]],
      [num |-> s.input_H, den |-> shape[3]]>>

ResizeData(v, s) ==
    IF \E k \in 1..3 : v.shape[k] = 0
    THEN [err |-> "ZeroDivisionError", data |-> None]
    ELSE [err |-> "ok", data |-> Zoom(v, ResizeScale(v.shape, s))]

(***************************************************************************)
(* __itensity_normalize_one_volume__: the Intensity Normalizer.             *)
(*                                                                         *)
(* Floating-point results are kept exact.  With n foreground voxels of sum  *)
(* S and sum of squares Q, mean = S/n and std = sqrt(n*Q - S*S)/n, so       *)
(* (v - mean)/std = (v*n - S)/sqrt(n*Q - S*S): the value "z" carries the    *)
(* numerator num and the radicand rad.  numpy divides by zero and takes the *)
(* mean of an empty array without raising: the results are nan and +-inf.   *)
(* The k-th draw of np.random.normal from generator state seed is the       *)
(* value "noise" (seed, k).                                                 *)
(***************************************************************************)
NaN == [kind |-> "nan", num |-> 0, rad |-> 0]

PosInf == [kind |-> "inf", num |-> 1, rad |-> 0]

NegInf == [kind |-> "inf", num |-> -1, rad |-> 0]

ZVal(num, rad) == [kind |-> "z", num |-> num, rad |-> rad]

NoiseVal(seed, k) == [kind |-> "noise", num |-> seed, rad |-> k]

ForegroundNonZero(v) == {x \in Idx(v.shape) : v.data[x] # 0}

\* volume > 0 (the mask of pixels = volume[volume > 0])
Foreground(v) == {x \in Idx(v.shape) : v.data[x] > 0}

NoiseMaskNonPositive(v) == {x \in Idx(v.shape) : v.data[x] <= 0}

\* volume == 0 (the mask of out[volume == 0] = out_random[volume == 0])
NoiseMask(v) == {x \in Idx(v.shape) : v.data[x] = 0}

\* (v - mean)/std in IEEE arithmetic, from the foreground's n, S, Q
ZScore(v, n, S, Q) ==
    IF n = 0 THEN NaN
    ELSE LET num == v * n - S
             rad == n * Q - S * S
         IN  IF rad # 0 THEN ZVal(num, rad)
             ELSE IF num = 0 THEN NaN
             ELSE IF num > 0 THEN PosInf ELSE NegInf

\* C order of np.random.normal(0, 1, size = volume.shape)
LinearIndex(shape, x) == (x[1] * shape[2] + x[2]) * shape[3] + x[3]

OutRandom(shape, r) ==
    [x \in Idx(shape) |-> NoiseVal(r.seed, r.pos + LinearIndex(shape, x))]

Normalize(v, r) ==
    LET fg   == Foreground(v)
        n    == Cardinality(fg)
        S    == SumOver(fg, v.data)
        Q    == SumOver(fg, [x \in Idx(v.shape) |-> v.data[x] * v.data[x]])
        rnd  == OutRandom(v.shape, r)
        mask == NoiseMask(v)
    IN  [err  |-> "ok",
         data |-> [shape |-> v.shape,
                   data  |-> [x \in Idx(v.shape) |->
                                IF x \in mask THEN rnd[x]
                                ELSE ZScore(v.data[x], n, S, Q)]],
         rng  |-> [seed |-> r.seed, pos |-> r.pos + Size(v.shape)]]

(***************************************************************************)
(* The pipeline's functions applied to drawn inputs.  pc names the last     *)
(* call; out is what it returned (err "ok") or the exception it raised.     *)
(***************************************************************************)
Targets == (1..MaxTarget) \X (1..MaxTarget) \X (1..MaxTarget)

\* sets: phase, target shape (input_D, input_H, input_W), manifest (data_list)
MkSets(phase, t, dl) ==
    [phase |-> phase, input_D |-> t[1], input_H |-> t[2], input_W |-> t[3],
     data_list |-> dl]

Seeds == 1..NumSeeds

NoRoot == <<>>

NoObj == [kind |-> "none"]

NoRet == [op |-> "none"]

\* no training loop is running
NoLoop == [kind |-> "none"]

InitEnumeratorIdle ==
    /\ root = NoRoot
    /\ obj = NoObj
    /\ ret = NoRet
    /\ calls = 0
    /\ loop = NoLoop

InitClip ==
    /\ pc = "input"
    /\ volume \in TwoSpotVolumes
    /\ sets = MkSets("train", <<1, 1, 1>>, <<>>)
    /\ rng = [seed |-> 1, pos |-> 0]
    /\ out = None
    /\ InitEnumeratorIdle

DropInvalidRangeCall ==
    /\ pc = "input"
    /\ pc' = "clip"
    /\ out' = DropInvalidRange(volume)
    /\ UNCHANGED <<volume, sets, rng, root, obj, ret, calls, loop>>

SpecClip == InitClip /\ [][DropInvalidRangeCall]_vars

InitResize ==
    /\ pc = "input"
    /\ volume \in SpotVolumes
    /\ sets \in {MkSets("train", t, <<>>) : t \in Targets}
    /\ rng = [seed |-> 1, pos |-> 0]
    /\ out = None
    /\ InitEnumeratorIdle

ResizeDataCall ==
    /\ pc = "input"
    /\ pc' = "resize"
    /\ out' = ResizeData(volume, sets)
    /\ UNCHANGED <<volume, sets, rng, root, obj, ret, calls, loop>>

SpecResize == InitResize /\ [][ResizeDataCall]_vars

InitNormalize ==
    /\ pc = "input"
    /\ volume \in DenseVolumes
    /\ sets = MkSets("train", <<1, 1, 1>>, <<>>)
    /\ rng \in {[seed |-> s, pos |-> 0] : s \in Seeds}
    /\ out = None
    /\ InitEnumeratorIdle

NormalizeCall ==
    /\ pc = "input"
    /\ pc' = "normalize"
    /\ LET r == Normalize(volume, rng)
       IN  /\ out' = [err |-> r.err, data |-> r.data]
           /\ rng' = r.rng
    /\ UNCHANGED <<volume, sets, root, obj, ret, calls, loop>>

SpecNormalize == InitNormalize /\ [][NormalizeCall]_vars

(***************************************************************************)
(* Claims about the Range Clipper, the Resampler and the Normalizer.        *)
(***************************************************************************)
AllAxesAtLeastOne == \A k \in 1..3 : volume.shape[k] >= 1

\* C1: for every target (D, H, W) and every input volume with all axis
\* lengths >= 1, the Resampler returns a volume of shape exactly (D, H, W),
\* in that axis order.
C1_ResamplerShapeIsDHW ==
    (pc = "resize" /\ AllAxesAtLeastOne)
        => /\ out.err = "ok"
           /\ out.data.shape = <<sets.input_D, sets.input_H, sets.input_W>>

HasForeground == \E x \in Idx(volume.shape) : volume.data[x] > 0

C3_EmptyForegroundIsFatal ==
    (pc = "normalize" /\ ~HasForeground) => (out.err # "ok" /\ out.data = None)

IsConstant ==
    \A x \in Idx(volume.shape) : volume.data[x] = volume.data[<<0, 0, 0>>]

\* C4: given a volume in which every voxel equals the value at (0,0,0), the
\* Range Clipper ends in a fatal error and returns no sub-volume.
C4_ConstantVolumeIsFatal ==
    (pc = "clip" /\ IsConstant) => (out.err = "ValueError" /\ out.data = None)

C4_Witness ==
    /\ pc = "clip"
    /\ IsConstant
    /\ Size(volume.shape) > 1
    /\ out.err = "ValueError"

\* lo and hi are the smallest and largest index, per axis, of the voxels that
\* differ from the voxel at (0,0,0)
IsBoundingBox(lo, hi) ==
    LET D == {x \in Idx(volume.shape) : volume.data[x] # volume.data[<<0, 0, 0>>]}
    IN  \A k \in 1..3 :
           /\ \E x \in D : x[k] = lo[k]
           /\ \E x \in D : x[k] = hi[k]
           /\ \A x \in D : lo[k] <= x[k] /\ x[k] <= hi[k]

ClipReturnedBox ==
    /\ out.err = "ok"
    /\ \E lo \in Idx(volume.shape), hi \in Idx(volume.shape) :
          /\ IsBoundingBox(lo, hi)
          /\ out.data.shape = <<hi[1] - lo[1], hi[2] - lo[2], hi[3] - lo[3]>>
          /\ DOMAIN out.data.data = Idx(out.data.shape)
          /\ \A y \in Idx(out.data.shape) :
                out.data.data[y] =
                    volume.data[<<y[1] + lo[1], y[2] + lo[2], y[3] + lo[3]>>]

\* C5: for every volume with a voxel differing from the one at (0,0,0), the
\* Range Clipper returns exactly volume[min_z:max_z, min_h:max_h, min_w:max_w]
\* (max index excluded, so the length on each axis is max - min), and the
\* input volume is not modified.
C5_ClipReturnsBoundingBox ==
    [][(pc' = "clip" /\ ~IsConstant)
          => (volume' = volume /\ ClipReturnedBox')]_vars

C5_Witness ==
    /\ pc = "clip"
    /\ out.err = "ok"
    /\ \A k \in 1..3 : out.data.shape[k] >= 1 /\ out.data.shape[k] < volume.shape[k]

(***************************************************************************)
(* __find_classes__: the Class Table.                                       *)
(*                                                                         *)
(* A name is a non-empty sequence of character codes; Python compares       *)
(* strings lexicographically by code point.  A directory listing            *)
(* (os.scandir) is a set of entries [name, is_dir, kids], in no order.      *)
(***************************************************************************)
Chars == 1..NumChars

\* the one- and two-character names
Names == {<<c>> : c \in Chars} \cup {<<c, d>> : c \in Chars, d \in Chars}

StrLess(a, b) ==
    \E k \in 1..(Len(b)) :
       /\ k <= Len(a) + 1
       /\ \A j \in 1..(k - 1) : a[j] = b[j]
       /\ (k = Len(a) + 1 \/ a[k] < b[k])

StrGreater(a, b) == StrLess(b, a)

\* the comparison that sorted() applies to two names
SortedBefore(a, b) == StrLess(a, b)

RECURSIVE SortNames(_)
SortNames(S) ==
    IF S = {} THEN <<>>
    ELSE LET m == CHOOSE x \in S : \A y \in S \ {x} : SortedBefore(x, y)
         IN  <<m>> \o SortNames(S \ {m})

ScanAllNames(listing) == {e.name : e \in listing}

\* entry.name for entry in os.scandir(directory) if entry.is_dir()
ScanDirNames(listing) == {e.name : e \in {f \in listing : f.is_dir}}

\* {cls_name: i for i, cls_name in enumerate(classes)}
Enumerate(classes) ==
    [n \in {classes[i] : i \in 1..Len(classes)} |->
        (CHOOSE i \in 1..Len(classes) : classes[i] = n) - 1]

FindClasses(listing) ==
    LET classes == SortNames(ScanDirNames(listing))
    IN  IF classes = <<>>
        THEN [err |-> "FileNotFoundError", classes |-> <<>>, class_to_idx |-> <<>>]
        ELSE [err |-> "ok", classes |-> classes, class_to_idx |-> Enumerate(classes)]

Entry(name, isdir, kids) == [name |-> name, is_dir |-> isdir, kids |-> kids]

RECURSIVE SubsetsUpTo(_, _)
SubsetsUpTo(S, k) ==
    IF k = 0 THEN {{}}
    ELSE LET r == SubsetsUpTo(S, k - 1)
         IN  r \cup {T \cup {x} : T \in r, x \in S}

\* the listings of at most MaxEntries entries, directories and plain files
Listings ==
    UNION {{{Entry(n, d[n], <<>>) : n \in N} : d \in [N -> BOOLEAN]}
           : N \in SubsetsUpTo(Names, MaxEntries)}

InitClasses ==
    /\ pc = "input"
    /\ volume = None
    /\ sets = MkSets("train", <<1, 1, 1>>, <<>>)
    /\ rng = [seed |-> 1, pos |-> 0]
    /\ out = None
    /\ root \in Listings
    /\ obj = NoObj
    /\ ret = NoRet
    /\ calls = 0
    /\ loop = NoLoop

FindClassesCall ==
    /\ pc = "input"
    /\ pc' = "find_classes"
    /\ ret' = FindClasses(root)
    /\ UNCHANGED <<volume, sets, rng, out, root, obj, calls, loop>>

SpecClasses == InitClasses /\ [][FindClassesCall]_vars

\* C8: for every non-empty set of class-directory names at the root,
\* __find_classes__ returns a table mapping the names, in ascending sorted
\* order, to the consecutive indices 0..n-1 (a bijection; {A,B} gives A->0,
\* B->1), and non-directory entries get no index.
C8_ClassTableSortedBijection ==
    LET dirs  == {e \in root : e.is_dir}
        names == {e.name : e \in dirs}
        n     == Cardinality(names)
        tab   == ret.class_to_idx
    IN  (pc = "find_classes" /\ dirs # {})
           => /\ ret.err = "ok"
              /\ DOMAIN tab = names
              /\ {tab[x] : x \in names} = 0..(n - 1)
              /\ \A x \in names, y \in names :
                    (x # y) => (tab[x] # tab[y])
              /\ \A x \in names, y \in names :
                    (tab[x] < tab[y]) <=>
                       (\/ \E k \in 1..Min2(Len(x), Len(y)) :
                              /\ \A j \in 1..(k - 1) : x[j] = y[j]
                              /\ x[k] < y[k]
                        \/ /\ Len(x) < Len(y)
                           /\ \A j \in 1..Len(x) : x[j] = y[j])
              /\ Len(ret.classes) = n
              /\ \A x \in names : ret.classes[tab[x] + 1] = x
              /\ (names = {<<1>>, <<2>>}) => (tab[<<1>>] = 0 /\ tab[<<2>>] = 1)

\* two directories, the shorter name first, and a plain file that sorts before both
C8_Witness ==
    /\ pc = "find_classes"
    /\ ret.err = "ok"
    /\ Len(ret.classes) = 2
    /\ \E e \in root : ~e.is_dir /\ StrLess(e.name, ret.classes[1])
    /\ Len(ret.classes[1]) < Len(ret.classes[2])
    /\ ret.class_to_idx[ret.classes[2]] = 1

(***************************************************************************)
(* The Example Enumerator: CustomTumorDataset.                              *)
(*                                                                         *)
(* root is the listing of the dataset root: every directory entry carries   *)
(* kids, the kinds of its children in directory order ("nii.gz", "nii",     *)
(* "other": any other name, such as a patient directory).  A path is the    *)
(* record [parent, child, kind].  A manifest line is a sequence of the      *)
(* characters " " and "a"; a manifest path is a run of "a".                 *)
(***************************************************************************)
ClassNames == {<<c>> : c \in Chars}

KidKinds == {"nii.gz", "nii", "other"}

KidSeqs == UNION {[1..n -> KidKinds] : n \in 0..MaxKids}

RootChoices ==
    {[present |-> FALSE, is_dir |-> FALSE, kids |-> <<>>],
     [present |-> TRUE, is_dir |-> FALSE, kids |-> <<>>]}
    \cup {[present |-> TRUE, is_dir |-> TRUE, kids |-> k] : k \in KidSeqs}

Roots ==
    {{Entry(n, c[n].is_dir, c[n].kids) : n \in {m \in ClassNames : c[m].present}}
     : c \in [ClassNames -> RootChoices]}

LineChars == {" ", "a"}

Lines == UNION {[1..n -> LineChars] : n \in 0..MaxLineLen}

Manifests == UNION {[1..n -> Lines] : n \in 0..MaxLines}

\* the orders in which the file system may list the directories of the root
DirOrders(listing) ==
    LET D == ScanDirNames(listing)
    IN  {o \in [1..Cardinality(D) -> D] :
            \A i \in DOMAIN o, j \in DOMAIN o : (i # j) => (o[i] # o[j])}

KidsOf(listing, name) == (CHOOSE e \in listing : e.name = name).kids

RECURSIVE KidPaths(_, _, _, _)
KidPaths(name, kids, i, kinds) ==
    IF i > Len(kids) THEN <<>>
    ELSE (IF kids[i] \in kinds
          THEN <<[parent |-> name, child |-> i, kind |-> kids[i]]>>
          ELSE <<>>) \o KidPaths(name, kids, i + 1, kinds)

\* pathlib.Path(root_dir).glob("*/<pattern>"), pattern matching the kinds
RECURSIVE Glob(_, _, _, _)
Glob(listing, order, i, kinds) ==
    IF i > Len(order) THEN <<>>
    ELSE KidPaths(order[i], KidsOf(listing, order[i]), 1, kinds)
            \o Glob(listing, order, i + 1, kinds)

\* str.strip() of a manifest line
RECURSIVE LStrip(_)
LStrip(s) == IF s # <<>> /\ Head(s) = " " THEN LStrip(Tail(s)) ELSE s

RECURSIVE RStrip(_)
RStrip(s) ==
    IF s # <<>> /\ s[Len(s)] = " " THEN RStrip(SubSeq(s, 1, Len(s) - 1)) ELSE s

Strip(s) == RStrip(LStrip(s))

\* str.split(): the maximal runs of non-blank characters
RECURSIVE SplitFrom(_, _)
SplitFrom(s, cur) ==
    IF s = <<>> THEN (IF cur = <<>> THEN <<>> ELSE <<cur>>)
    ELSE IF Head(s) = " "
         THEN (IF cur = <<>> THEN <<>> ELSE <<cur>>) \o SplitFrom(Tail(s), <<>>)
         ELSE SplitFrom(Tail(s), Append(cur, Head(s)))

Split(s) == SplitFrom(s, <<>>)

\* [line.strip() for line in f]
RECURSIVE ReadLines(_)
ReadLines(m) == IF m = <<>> THEN <<>> ELSE <<Strip(Head(m))>> \o ReadLines(Tail(m))

(***************************************************************************)
(* __init__.                                                                *)
(***************************************************************************)
SinglePathsGzOnly(listing, order) == Glob(listing, order, 1, {"nii.gz"})

\* glob("*/*.nii.gz") + glob("*/*.nii")
SinglePaths(listing, order) ==
    Glob(listing, order, 1, {"nii.gz"}) \o Glob(listing, order, 1, {"nii"})

\* glob("*/*")
DualPaths(listing, order) == Glob(listing, order, 1, KidKinds)

SingleInitBody(listing, s, order) ==
    LET fc == FindClasses(listing)
    IN  IF fc.err # "ok"
        THEN [err |-> fc.err, obj |-> NoObj]
        ELSE [err |-> "ok",
              obj |-> [kind |-> "single",
                       paths |-> SinglePaths(listing, order),
                       classes |-> fc.classes,
                       class_to_idx |-> fc.class_to_idx,
                       input_D |-> s.input_D,
                       input_H |-> s.input_H,
                       input_W |-> s.input_W,
                       phase |-> s.phase]]

\* lines 21-35 of the dual-modality __init__, for a value ph of self.phase as
\* line 21 reads it; "unset" when the attribute does not exist
DualInitBody(listing, s, order, ph) ==
    LET fc == FindClasses(listing)
    IN  IF ph = "unset" THEN [err |-> "AttributeError", obj |-> NoObj]
        ELSE IF ph = "train" /\ fc.err # "ok" THEN [err |-> fc.err, obj |-> NoObj]
        ELSE [err |-> "ok",
              obj |-> [kind |-> "dual",
                       paths |-> DualPaths(listing, order),
                       classes |-> IF ph = "train" THEN fc.classes ELSE None,
                       class_to_idx |-> IF ph = "train" THEN fc.class_to_idx ELSE None,
                       data_list |-> IF ph = "test" THEN ReadLines(s.data_list) ELSE None,
                       input_D |-> s.input_D,
                       input_H |-> s.input_H,
                       input_W |-> s.input_W,
                       phase |-> s.phase,
                       t1_image_list |-> <<>>,
                       t2_image_list |-> <<>>]]

\* self.phase when __init__ starts: no attribute of the new instance is set
PhaseAtInit == "unset"

(***************************************************************************)
(* __training_data_process__, __testing_data_process__ (classification)     *)
(* and __nii2tensorarray__.  trace lists the steps that ran.                *)
(***************************************************************************)
Proc(err, data, r, trace) == [err |-> err, data |-> data, rng |-> r, trace |-> trace]

TrainingDataProcess(v, o, r) ==
    LET c == DropInvalidRange(v)
    IN  IF c.err # "ok" THEN Proc(c.err, None, r, <<"clip">>)
        ELSE LET z == ResizeData(c.data, o)
             IN  IF z.err # "ok" THEN Proc(z.err, None, r, <<"clip", "resize">>)
                 ELSE LET n == Normalize(z.data, r)
                      IN  Proc("ok", n.data, n.rng, <<"clip", "resize", "normalize">>)

TestingDataProcessWithClip(v, o, r) == TrainingDataProcess(v, o, r)

TestingDataProcess(v, o, r) ==
    LET z == ResizeData(v, o)
    IN  IF z.err # "ok" THEN Proc(z.err, None, r, <<"resize">>)
        ELSE LET n == Normalize(z.data, r)
             IN  Proc("ok", n.data, n.rng, <<"resize", "normalize">>)

DataProcess(v, o, r) ==
    IF o.phase = "train" THEN TrainingDataProcess(v, o, r)
    ELSE TestingDataProcess(v, o, r)

Idx4(shape) ==
    (0..(shape[1] - 1)) \X (0..(shape[2] - 1)) \X (0..(shape[3] - 1))
        \X (0..(shape[4] - 1))

Nii2TensorArrayNoChannel(v) ==
    [dtype |-> "float32", shape |-> v.shape, data |-> v.data]

\* single: np.reshape(data, [1, z, y, x]).astype("float32")
Nii2TensorArraySingle(v) ==
    LET shp == <<1, v.shape[1], v.shape[2], v.shape[3]>>
    IN  [dtype |-> "float32",
         shape |-> shp,
         data  |-> [x \in Idx4(shp) |-> v.data[<<x[2], x[3], x[4]>>]]]

\* dual: np.reshape(data, [z, y, x]).astype("float32")
Nii2TensorArrayDual(v) == [dtype |-> "float32", shape |-> v.shape, data |-> v.data]

StackFirstOnly(a, b) ==
    LET shp == <<1, a.shape[1], a.shape[2], a.shape[3]>>
    IN  [dtype |-> a.dtype,
         shape |-> shp,
         data  |-> [x \in Idx4(shp) |-> a.data[<<x[2], x[3], x[4]>>]]]

\* np.array([t1_img_array, t2_img_array]) of two arrays of one shape
Stack(a, b) ==
    LET shp == <<2, a.shape[1], a.shape[2], a.shape[3]>>
    IN  [dtype |-> a.dtype,
         shape |-> shp,
         data  |-> [x \in Idx4(shp) |->
                      IF x[1] = 0 THEN a.data[<<x[2], x[3], x[4]>>]
                      ELSE b.data[<<x[2], x[3], x[4]>>]]]

\* str(path)
PathStr(p) == <<"root_dir", p.parent, p.child>>

(***************************************************************************)
(* __getitem__.  env is what the fetch reads from outside: whether the      *)
(* paths are files, what the suffix globs find, the volumes that            *)
(* nibabel.load returns and the state of numpy's random generator.          *)
(***************************************************************************)
Ret(idx, err, tensor, label, path, loaded, trace) ==
    [op |-> "getitem", idx |-> idx, err |-> err, tensor |-> tensor, label |-> label,
     path |-> path, loaded |-> loaded, trace |-> trace]

Fetch(r, o, g, last) == [ret |-> r, obj |-> o, rng |-> g, out |-> last]

\* what the last volume processed came to
Last(p) == [err |-> p.err, data |-> p.data]

Rng0(env) == [seed |-> env.seed, pos |-> 0]

SingleGetItem(o, idx, env) ==
    IF idx >= Len(o.paths)
    THEN Fetch(Ret(idx, "IndexError", None, None, None, <<>>, <<>>), o, Rng0(env), None)
    ELSE LET img_path == o.paths[idx + 1]
         IN  IF ~env.f1
             THEN Fetch(Ret(idx, "AssertionError", None, None, None, <<>>, <<>>), o, Rng0(env), None)
             ELSE LET p == DataProcess(env.v1, o, Rng0(env))
                  IN  IF p.err # "ok"
                      THEN Fetch(Ret(idx, p.err, None, None, None, <<img_path>>,
                                     <<"load">> \o p.trace), o, p.rng, Last(p))
                      ELSE Fetch(Ret(idx, "ok", Nii2TensorArraySingle(p.data),
                                     IF o.phase = "train"
                                     THEN o.class_to_idx[img_path.parent] ELSE None,
                                     IF o.phase = "train" THEN PathStr(img_path) ELSE None,
                                     <<img_path>>,
                                     <<"load">> \o p.trace \o <<"pack">>), o, p.rng, Last(p))

\* the two volumes of a dual fetch: both loaded, then processed one by one
DualProcess(o, idx, env, t1, t2, label, path) ==
    LET p1 == DataProcess(env.v1, o, Rng0(env))
        l  == <<"load", "load">>
    IN  IF p1.err # "ok"
        THEN Fetch(Ret(idx, p1.err, None, None, None, <<t1, t2>>, l \o p1.trace), o, p1.rng, Last(p1))
        ELSE LET p2 == DataProcess(env.v2, o, p1.rng)
                 tr == l \o p1.trace \o p2.trace
             IN  IF p2.err # "ok"
                 THEN Fetch(Ret(idx, p2.err, None, None, None, <<t1, t2>>, tr), o, p2.rng, Last(p2))
                 ELSE Fetch(Ret(idx, "ok",
                                Stack(Nii2TensorArrayDual(p1.data),
                                      Nii2TensorArrayDual(p2.data)),
                                label, path, <<t1, t2>>, tr \o <<"pack", "pack">>),
                            o, p2.rng, Last(p2))

DualGetItemTrainBody(o, idx, env) ==
    IF idx >= Len(o.paths)
    THEN Fetch(Ret(idx, "IndexError", None, None, None, <<>>, <<>>), o, Rng0(env), None)
    ELSE LET patient_path == o.paths[idx + 1]
             t1 == [patient |-> patient_path, suffix |-> "t1.nii.gz"]
             t2 == [patient |-> patient_path, suffix |-> "t2.nii.gz"]
             o1 == [o EXCEPT !.t1_image_list = Append(@, t1)]
             o2 == [o1 EXCEPT !.t2_image_list = Append(@, t2)]
         IN  IF ~env.g1
             THEN Fetch(Ret(idx, "IndexError", None, None, None, <<>>, <<>>), o, Rng0(env), None)
             ELSE IF ~env.f1
             THEN Fetch(Ret(idx, "AssertionError", None, None, None, <<>>, <<>>), o, Rng0(env), None)
             ELSE IF ~env.g2
             THEN Fetch(Ret(idx, "IndexError", None, None, None, <<>>, <<>>), o1, Rng0(env), None)
             ELSE IF ~env.f2
             THEN Fetch(Ret(idx, "AssertionError", None, None, None, <<>>, <<>>), o2, Rng0(env), None)
             ELSE DualProcess(o2, idx, env, t1, t2, o.class_to_idx[patient_path.parent],
                              PathStr(patient_path))

TokenCountUnchecked(patient_data) == TRUE

\* the test in "if len(patient_data) != 2: raise ValueError"
TokenCountOk(patient_data) == Len(patient_data) = 2

DualGetItemTestBody(o, idx, env) ==
    IF idx >= Len(o.data_list)
    THEN Fetch(Ret(idx, "IndexError", None, None, None, <<>>, <<>>), o, Rng0(env), None)
    ELSE LET patient_data == Split(o.data_list[idx + 1])
         IN  IF ~TokenCountOk(patient_data)
             THEN Fetch(Ret(idx, "ValueError", None, None, None, <<>>, <<>>), o, Rng0(env), None)
             ELSE IF Len(patient_data) # 2   \* t1_path, t2_path = patient_data
             THEN Fetch(Ret(idx, "ValueError(unpack)", None, None, None, <<>>, <<>>),
                        o, Rng0(env), None)
             ELSE IF ~env.f1 \/ ~env.f2
             THEN Fetch(Ret(idx, "AssertionError", None, None, None, <<>>, <<>>), o, Rng0(env), None)
             ELSE DualProcess(o, idx, env, patient_data[1], patient_data[2], None, None)

(***************************************************************************)
(* The enumerator's inputs and its state machine.                           *)
(***************************************************************************)
\* the volumes a file may hold: background 0 with two voxels set
LoadVolumes ==
    {MkVolume(<<MaxDim, MaxDim, MaxDim>>, 0, <<MaxDim - 1, 0, 0>>, a,
              <<0, MaxDim - 1, MaxDim - 1>>, b) : a \in 0..1, b \in 0..MaxVal}

Flags == [g1 : BOOLEAN, f1 : BOOLEAN, g2 : BOOLEAN, f2 : BOOLEAN]

Env(fl, v1, v2, seed) ==
    [g1 |-> fl.g1, f1 |-> fl.f1, g2 |-> fl.g2, f2 |-> fl.f2,
     v1 |-> v1, v2 |-> v2, seed |-> seed]

AllFound == [g1 |-> TRUE, f1 |-> TRUE, g2 |-> TRUE, f2 |-> TRUE]

FullEnvs ==
    {Env(AllFound, v1, v2, s) : v1 \in LoadVolumes, v2 \in LoadVolumes, s \in Seeds}

\* a fetch that finds a file missing loads nothing
TrainEnvs == {Env(fl, None, None, 1) : fl \in Flags \ {AllFound}} \cup FullEnvs

\* the evaluate-mode fetch globs nothing
TestEnvs ==
    {Env(fl, None, None, 1) : fl \in {x \in Flags \ {AllFound} : x.g1 /\ x.g2}}
    \cup FullEnvs

\* the single-modality fetch reads one file
SingleEnvs ==
    {Env([AllFound EXCEPT !.f1 = FALSE], None, None, 1)}
    \cup {Env(AllFound, v1, None, s) : v1 \in LoadVolumes, s \in Seeds}

\* the targets with input_H = input_W, as in the ci_test settings (14, 28, 28)
SquareTargets == {tg \in Targets : tg[2] = tg[3]}

\* sets.data_list is read in phase "test" only: it is left empty in phase "train"
AllSets ==
    {MkSets("train", tg, <<>>) : tg \in SquareTargets}
    \cup {MkSets("test", tg, m) : tg \in SquareTargets, m \in Manifests}

InitProgram ==
    /\ pc = "start"
    /\ volume = None
    /\ sets \in AllSets
    /\ rng = [seed |-> 1, pos |-> 0]
    /\ out = None
    /\ root \in Roots
    /\ obj = NoObj
    /\ ret = NoRet
    /\ calls = 0
    /\ loop = NoLoop

\* the object that lines 22-35 of the dual-modality __init__ assign
InitDualObject ==
    /\ pc = "object"
    /\ volume = None
    /\ sets \in AllSets
    /\ rng = [seed |-> 1, pos |-> 0]
    /\ out = None
    /\ root \in Roots
    /\ \E order \in DirOrders(root) :
          LET b == DualInitBody(root, sets, order, sets.phase)
          IN  b.err = "ok" /\ obj = b.obj
    /\ ret = NoRet
    /\ calls = 0
    /\ loop = NoLoop

Init == InitProgram \/ InitDualObject

SingleInit ==
    /\ pc = "start"
    /\ \E order \in DirOrders(root) :
          LET b == SingleInitBody(root, sets, order)
          IN  /\ obj' = b.obj
              /\ ret' = [op |-> "init", kind |-> "single", err |-> b.err]
    /\ pc' = "object"
    /\ UNCHANGED <<volume, sets, rng, out, root, calls, loop>>

DualInit ==
    /\ pc = "start"
    /\ \E order \in DirOrders(root) :
          LET b == DualInitBody(root, sets, order, PhaseAtInit)
          IN  /\ obj' = b.obj
              /\ ret' = [op |-> "init", kind |-> "dual", err |-> b.err]
    /\ pc' = "object"
    /\ UNCHANGED <<volume, sets, rng, out, root, calls, loop>>

LenPaths(o) == Len(o.paths)

\* __len__
LenCall ==
    /\ obj # NoObj
    /\ calls < MaxCalls
    /\ calls' = calls + 1
    /\ ret' = [op |-> "len", err |-> "ok", value |-> LenPaths(obj)]
    /\ UNCHANGED <<pc, volume, sets, rng, out, root, obj, loop>>

\* a fetch: what it returns or raises, and what it leaves behind
Apply(f) ==
    /\ calls < MaxCalls
    /\ calls' = calls + 1
    /\ ret' = f.ret
    /\ obj' = f.obj
    /\ rng' = f.rng
    /\ out' = f.out
    /\ UNCHANGED <<pc, volume, sets, root, loop>>

SingleGetItemTrain ==
    /\ obj # NoObj /\ obj.kind = "single" /\ obj.phase = "train"
    /\ \E idx \in 0..MaxIdx, env \in SingleEnvs : Apply(SingleGetItem(obj, idx, env))

SingleGetItemTest ==
    /\ obj # NoObj /\ obj.kind = "single" /\ obj.phase = "test"
    /\ \E idx \in 0..MaxIdx, env \in SingleEnvs : Apply(SingleGetItem(obj, idx, env))

DualGetItemTrain ==
    /\ obj # NoObj /\ obj.kind = "dual" /\ obj.phase = "train"
    /\ \E idx \in 0..MaxIdx, env \in TrainEnvs : Apply(DualGetItemTrainBody(obj, idx, env))

DualGetItemTest ==
    /\ obj # NoObj /\ obj.kind = "dual" /\ obj.phase = "test"
    /\ \E idx \in 0..MaxIdx, env \in TestEnvs : Apply(DualGetItemTestBody(obj, idx, env))

Next ==
    \/ SingleInit
    \/ DualInit
    \/ LenCall
    \/ SingleGetItemTrain
    \/ SingleGetItemTest
    \/ DualGetItemTrain
    \/ DualGetItemTest

Spec == Init /\ [][Next]_vars

(***************************************************************************)
(* Claims about the Example Enumerator.                                     *)
(***************************************************************************)
FetchDone == ret.op = "getitem"

\* C6: every successful fetch returns a rank-4 tensor whose leading dimension
\* is 1 for the single-modality enumerator and 2 for the dual-modality one, in
\* train and in evaluate mode, the other three dimensions being the shape of
\* the normalized volume(s).
C6_PackedTensorShape ==
    (FetchDone /\ ret.err = "ok")
        => /\ Len(ret.tensor.shape) = 4
           /\ ret.tensor.shape[1] = (IF obj.kind = "single" THEN 1 ELSE 2)
           /\ <<ret.tensor.shape[2], ret.tensor.shape[3], ret.tensor.shape[4]>>
                 = out.data.shape
           /\ DOMAIN ret.tensor.data = Idx4(ret.tensor.shape)
           /\ ret.tensor.dtype = "float32"

\* a dual-modality fetch in train mode that packed two volumes of a target
\* whose axes differ
C6_Witness ==
    /\ FetchDone
    /\ ret.err = "ok"
    /\ obj.kind = "dual"
    /\ obj.phase = "train"
    /\ ret.tensor.shape[1] = 2
    /\ ret.tensor.shape[2] # ret.tensor.shape[3]
    /\ ret.trace = <<"load", "load", "clip", "resize", "normalize",
                     "clip", "resize", "normalize", "pack", "pack">>

NoSubdirectories == \A e \in root : ~e.is_dir

\* C7: in train mode, constructing the enumerator (single- or dual-modality)
\* on a root with zero subdirectories fails with the "class not found" error
\* (FileNotFoundError), and no enumerator is produced.
C7_EmptyRootIsClassNotFound ==
    (ret.op = "init" /\ sets.phase = "train" /\ NoSubdirectories)
        => (ret.err = "FileNotFoundError" /\ obj = NoObj)

\* the paths that line i (0-based) of the manifest file lists
ManifestTokens(i) ==
    LET line == sets.data_list[i + 1]
        S    == {k \in 1..Len(line) :
                   line[k] # " " /\ (k = 1 \/ line[k - 1] = " ")}
    IN  [start \in S |->
            SubSeq(line, start,
                   CHOOSE e \in start..Len(line) :
                      /\ \A k \in start..e : line[k] # " "
                      /\ (e = Len(line) \/ line[e + 1] = " "))]

\* C9: in evaluate mode the examples are exactly the manifest lines: __len__
\* equals the number of lines of the manifest file, and the fetch at index i
\* processes the path(s) listed on manifest line i, whatever the dataset root
\* holds.
C9_EvaluateExamplesAreManifestLines ==
    (obj # NoObj /\ obj.phase = "test")
        => /\ (ret.op = "len") => (ret.value = Len(sets.data_list))
           /\ (FetchDone /\ ret.loaded # <<>>)
                 => /\ ret.idx < Len(sets.data_list)
                    /\ {ret.loaded[k] : k \in DOMAIN ret.loaded}
                          = {ManifestTokens(ret.idx)[s] :
                                s \in DOMAIN ManifestTokens(ret.idx)}

DualEvaluateFetch ==
    /\ FetchDone
    /\ obj.kind = "dual"
    /\ obj.phase = "test"
    /\ ret.idx < Len(sets.data_list)

\* C10: in evaluate mode, fetching an example whose manifest line does not have
\* the expected number of whitespace-separated tokens (2 for dual-modality) ends
\* in a fatal formatting error, raised before any volume file is loaded; a line
\* with exactly the expected token count does not raise this error.
C10_TokenCountChecked ==
    DualEvaluateFetch
        => LET n == Cardinality(DOMAIN ManifestTokens(ret.idx))
           IN  /\ (n # 2) => (ret.err = "ValueError" /\ ret.loaded = <<>>
                               /\ ret.trace = <<>> /\ ret.tensor = None)
               /\ (n = 2) => (ret.err \notin {"ValueError", "ValueError(unpack)"})

\* a line with leading blanks and one path is refused
C10_Witness ==
    /\ DualEvaluateFetch
    /\ Cardinality(DOMAIN ManifestTokens(ret.idx)) = 1
    /\ Head(sets.data_list[ret.idx + 1]) = " "
    /\ ret.err = "ValueError"

TrainSteps == <<"clip", "resize", "normalize">>

TestSteps == <<"resize", "normalize">>

Prefixes(s) == {SubSeq(s, 1, k) : k \in 0..Len(s)}

RECURSIVE Repeat(_, _)
Repeat(s, n) == IF n = 0 THEN <<>> ELSE s \o Repeat(s, n - 1)

\* C11: a fetch in evaluate mode never runs the Range Clipper: each volume is
\* resampled, then normalized, and the fetch returns the packed tensor alone
\* (no label, no path); a fetch in train mode runs clip, then resample, then
\* normalize, in that order, on each volume, and returns label and path too.
C11_EvaluateSkipsClipTrainOrder ==
    FetchDone
        => LET test  == obj.phase = "test"
               steps == IF test THEN TestSteps ELSE TrainSteps
               nvol  == IF obj.kind = "single" THEN 1 ELSE 2
               loads == Repeat(<<"load">>, nvol)
               packs == Repeat(<<"pack">>, nvol)
           IN  /\ test => (\A k \in DOMAIN ret.trace : ret.trace[k] # "clip")
               /\ (ret.err = "ok")
                     => /\ ret.trace = loads \o Repeat(steps, nvol) \o packs
                        /\ ret.tensor # None
                        /\ test => (ret.label = None /\ ret.path = None)
                        /\ ~test => (ret.label \in Nat /\ ret.path # None)
               /\ (ret.err # "ok")
                     => /\ ret.tensor = None
                        /\ \/ ret.trace = <<>>
                           \/ \E j \in 0..(nvol - 1), q \in Prefixes(steps) \ {<<>>} :
                                 ret.trace = loads \o Repeat(steps, j) \o q

AllNoise(a) == \A x \in DOMAIN a.data : a.data[x].kind = "noise"

\* an evaluate-mode dual fetch of two volumes that came out as noise alone:
\* volumes without a voxel above 0
C11_Witness ==
    /\ FetchDone
    /\ obj.kind = "dual"
    /\ obj.phase = "test"
    /\ ret.err = "ok"
    /\ ret.trace = <<"load", "load", "resize", "normalize",
                     "resize", "normalize", "pack", "pack">>
    /\ AllNoise(ret.tensor)

\* C12: a fetch writes no state shared between fetches: after any sequence of
\* fetches, successful or failed, every field of the enumerator equals its
\* value right after construction.
C12_FetchLeavesEnumeratorUnchanged ==
    [][(obj # NoObj) => (obj' = obj)]_vars

(***************************************************************************)
(* Further claims about the Resampler and the Range Clipper.                *)
(***************************************************************************)
ShapeIsTarget == volume.shape = <<sets.input_D, sets.input_H, sets.input_W>>

\* C13: for every target (D, H, W) and every volume whose shape already is
\* (D, H, W), the Resampler returns a volume of the same shape and the same
\* voxel values, so that resampling twice with one target gives what
\* resampling once gives.
C13_ResamplerIdempotentOnTargetShape ==
    (pc = "resize" /\ ShapeIsTarget)
        => /\ out.err = "ok"
           /\ out.data = volume
           /\ ResizeData(out.data, sets) = out

HasDifferingVoxel == \E x \in Idx(volume.shape) : volume.data[x] # volume.data[<<0, 0, 0>>]

\* C15: in the training pipeline, for every volume with at least one voxel
\* that differs from voxel (0,0,0), the Range Clipper returns a sub-volume of
\* length >= 1 on every axis, so that the Resampler's scale factors
\* target/source are defined for the clipped volume (no division by a zero
\* axis length).
C15_ClipLeavesEveryAxisNonEmpty ==
    (pc = "clip" /\ HasDifferingVoxel)
        => /\ out.err = "ok"
           /\ \A k \in 1..3 : out.data.shape[k] >= 1
           /\ \A s \in {MkSets("train", t, <<>>) : t \in Targets} :
                 ResizeData(out.data, s).err = "ok"

(***************************************************************************)
(* The training loop: train() of dualseq_resnet18_train.py.                 *)
(*                                                                         *)
(* loop holds the locals of train() and what it acts on: the arguments      *)
(* total_epochs and len(data_loader), the length of the global              *)
(* validation_loader, model.training, best_val_loss, the loop indices, the  *)
(* checkpoints written by torch.save and, for every training batch run, the *)
(* mode the model was in.  A loss is the exact fraction sum/n.              *)
(***************************************************************************)
\* best_val_loss = 1000
InitialBest == 1000

Loss(sum, n) == [sum |-> sum, n |-> n]

LossLessOrEqual(a, b) == a.sum * b.n <= b.sum * a.n

\* avg_val_loss < best_val_loss
LossLess(a, b) == a.sum * b.n < b.sum * a.n

\* the losses a validation batch may give
LossVals == {1, 2, InitialBest, InitialBest + 1}

Unbound == [kind |-> "unbound"]

Bound == [kind |-> "bound"]

\* the state of train() when it is called
TrainArgs(te, nb, nv, m) ==
    [kind |-> "train",
     total_epochs |-> te,
     batches_per_epoch |-> nb,
     validation_batches |-> nv,
     training |-> m,
     best_val_loss |-> Unbound,
     epoch |-> 0,
     pos |-> 0,
     batch_id |-> Unbound,
     last_loss |-> Unbound,
     running_val_loss |-> 0,
     val_loss |-> Unbound,
     early_stop |-> FALSE,
     saved |-> <<>>,
     batch_log |-> {},
     err |-> "ok"]

InitTrain ==
    /\ pc = "train"
    /\ volume = None
    /\ sets = MkSets("train", <<1, 1, 1>>, <<>>)
    /\ rng = [seed |-> 1, pos |-> 0]
    /\ out = None
    /\ root = NoRoot
    /\ obj = NoObj
    /\ ret = NoRet
    /\ calls = 0
    /\ loop \in {TrainArgs(te, nb, nv, m) :
                    te \in 0..MaxEpochs, nb \in 0..MaxBatches,
                    nv \in 0..MaxBatches, m \in BOOLEAN}

Idle == UNCHANGED <<volume, sets, rng, out, root, obj, ret, calls>>

\* lines 21-35: model.train(); best_val_loss = 1000
TrainEnter ==
    /\ pc = "train"
    /\ pc' = "epoch"
    /\ loop' = [loop EXCEPT !.training = TRUE,
                            !.best_val_loss = Loss(InitialBest, 1),
                            !.epoch = 0]
    /\ Idle

\* for epoch in range(total_epochs): the next epoch, or the end of the loop
EpochStart ==
    /\ pc = "epoch"
    /\ IF loop.epoch < loop.total_epochs
       THEN /\ pc' = "batch"
            /\ loop' = [loop EXCEPT !.pos = 0]
       ELSE /\ pc' = "finished"
            /\ loop' = loop
    /\ Idle

\* lines 44-72: one training batch (forward, loss, backward, optimizer step)
TrainBatch ==
    /\ pc = "batch"
    /\ loop.pos < loop.batches_per_epoch
    /\ pc' = "batch"
    /\ loop' = [loop EXCEPT
                  !.batch_id = loop.pos,
                  !.pos = loop.pos + 1,
                  !.last_loss = Bound,
                  !.batch_log = @ \cup {[epoch |-> loop.epoch,
                                         training |-> loop.training]}]
    /\ Idle

\* lines 92-96: the training batches are exhausted; model.train(False)
ValidationStart ==
    /\ pc = "batch"
    /\ loop.pos = loop.batches_per_epoch
    /\ pc' = "val_batch"
    /\ loop' = [loop EXCEPT !.training = FALSE,
                            !.running_val_loss = 0,
                            !.pos = 0]
    /\ Idle

\* lines 97-118: one validation batch
ValBatch ==
    /\ pc = "val_batch"
    /\ loop.pos < loop.validation_batches
    /\ pc' = "val_batch"
    /\ \E l \in LossVals :
          loop' = [loop EXCEPT !.batch_id = loop.pos,
                               !.pos = loop.pos + 1,
                               !.val_loss = l,
                               !.running_val_loss = @ + l]
    /\ Idle

Raise(e) ==
    /\ pc' = "raised"
    /\ loop' = [loop EXCEPT !.err = e]

\* lines 121-145: the averages, the checkpoint, early stopping
ValidationEnd ==
    /\ pc = "val_batch"
    /\ loop.pos = loop.validation_batches
    /\ IF loop.validation_batches = 0     \* 100 * correct / total with total = 0
       THEN Raise("ZeroDivisionError")
       ELSE IF loop.last_loss = Unbound   \* last_loss at line 125
       THEN Raise("UnboundLocalError")
       ELSE LET avg_val_loss == Loss(loop.running_val_loss, loop.batch_id + 1)
                save == LossLess(avg_val_loss, loop.best_val_loss)
                l1 == IF save
                      THEN [loop EXCEPT
                              !.best_val_loss = avg_val_loss,
                              !.saved = Append(@, [epoch |-> loop.epoch,
                                                   batch_id |-> loop.batch_id,
                                                   avg_val_loss |-> avg_val_loss])]
                      ELSE loop
            IN  \E stop \in BOOLEAN :     \* early_stopping(val_loss, model)
                   IF stop
                   THEN /\ pc' = "finished"
                        /\ loop' = [l1 EXCEPT !.early_stop = TRUE]
                   ELSE /\ pc' = "epoch"
                        /\ loop' = [l1 EXCEPT !.epoch = loop.epoch + 1]
    /\ Idle

NextTrain ==
    \/ TrainEnter
    \/ EpochStart
    \/ TrainBatch
    \/ ValidationStart
    \/ ValBatch
    \/ ValidationEnd

SpecTrain == InitTrain /\ [][NextTrain]_vars

(***************************************************************************)
(* Claims about the training loop.                                          *)
(***************************************************************************)
\* C14: in train(), the model is in training mode during every training
\* batch (forward, loss, backward, optimizer step) of every epoch, also of
\* the epochs that follow a validation pass, which switches the model to
\* evaluation mode.
C14_TrainingBatchesInTrainingMode ==
    (loop # NoLoop) => (\A b \in loop.batch_log : b.training)

EndOfEpoch ==
    /\ pc = "val_batch"
    /\ loop.pos = loop.validation_batches
    /\ pc' # "raised"

\* the average validation loss of the epoch that ends
EpochAverage == Loss(loop.running_val_loss, loop.validation_batches)

Improves ==
    EpochAverage.sum * loop.best_val_loss.n < loop.best_val_loss.sum * EpochAverage.n

\* C16: across the epochs of train(), best_val_loss never increases; a
\* checkpoint is saved at the end of an epoch if and only if the epoch's
\* average validation loss is strictly less than best_val_loss as it stood
\* before the epoch (1000 at first), and best_val_loss then is that average;
\* the loop runs at most total_epochs epochs and stops after the first epoch
\* in which early stopping is signalled.
C16_BestLossAndCheckpoints ==
    [][(loop # NoLoop) =>
         /\ IF loop.best_val_loss = Unbound
            THEN /\ loop'.best_val_loss = [sum |-> 1000, n |-> 1]
                 /\ loop'.saved = <<>>
            ELSE loop'.best_val_loss.sum * loop.best_val_loss.n
                    <= loop.best_val_loss.sum * loop'.best_val_loss.n
         /\ IF EndOfEpoch
            THEN /\ (Len(loop'.saved) = Len(loop.saved) + 1) <=> Improves
                 /\ IF Improves
                    THEN /\ SubSeq(loop'.saved, 1, Len(loop.saved)) = loop.saved
                         /\ loop'.saved[Len(loop'.saved)].epoch = loop.epoch
                         /\ loop'.best_val_loss.sum * EpochAverage.n
                               = EpochAverage.sum * loop'.best_val_loss.n
                    ELSE /\ loop'.saved = loop.saved
                         /\ loop'.best_val_loss = loop.best_val_loss
                 /\ loop'.early_stop <=> (pc' = "finished")
                 /\ loop'.early_stop \/ (loop'.epoch = loop.epoch + 1 /\ pc' = "epoch")
            ELSE /\ (loop.best_val_loss # Unbound)
                       => (loop'.saved = loop.saved
                           /\ loop'.best_val_loss = loop.best_val_loss)
                 /\ loop'.epoch = loop.epoch
                 /\ loop'.early_stop = loop.early_stop
         /\ ~loop.early_stop
         /\ loop.epoch <= loop.total_epochs
         /\ (pc' \in {"batch", "val_batch"}) => (loop.epoch < loop.total_epochs)
      ]_vars

\* two epochs: the first averaged 1000 or more and saved nothing, the second
\* improved, saved its checkpoint and signalled early stopping
C16_Witness ==
    /\ pc = "finished"
    /\ loop.total_epochs = 2
    /\ loop.early_stop
    /\ loop.epoch = 1
    /\ Len(loop.saved) = 1
    /\ loop.saved[1].epoch = 1
    /\ loop.best_val_loss = loop.saved[1].avg_val_loss
    /\ loop.best_val_loss.sum < InitialBest * loop.best_val_loss.n

====
